---- MODULE Spec2Model ----
(***************************************************************************)
(* Model of pycicle's command line engine: the quote aware tokenizer       *)
(* (pycicle/tools/parsers.py) and the Argument / KeywordArguments /        *)
(* CmdParser classes (pycicle/cmd_parser.py).                              *)
(*                                                                         *)
(* A python str is a sequence of one-character strings; a token list is a  *)
(* sequence of such sequences.                                             *)
(***************************************************************************)
EXTENDS Integers, Sequences, FiniteSets, TLC

VARIABLES
    hist,               \* tokenizer runs: the values split and join produced
    program,            \* name of the declared parser classes
    arguments,          \* per parser: cls.arguments, the finalized descriptors
    keyword_arguments,  \* per parser: the value store __arg_values__
    sub_parsers,        \* per parser: dict of sub-command name to parser
    parent,             \* per parser: the parser it is attached to, or "None"
    called,             \* targets invoked by the last operation, in order
    rendered,           \* the str the last command() returned, if any
    request,            \* the operation the caller asked for, not yet run
    outcome             \* what the last operation was and how it ended

(***************************************************************************)
(* Characters                                                              *)
(***************************************************************************)
QUOTE == "\""
SPACE == " "
TAB == "\t"

\* characters that str.split() without arguments treats as separators
Whitespace == {SPACE, TAB}

(***************************************************************************)
(* python str helpers                                                      *)
(***************************************************************************)
\* index of the first occurrence of c in s at or after position i, 0 if none
RECURSIVE find(_, _, _)
find(s, c, i) ==
    IF i > Len(s) THEN 0
    ELSE IF s[i] = c THEN i
    ELSE find(s, c, i + 1)

\* str.partition(delimiter): (before, delimiter, after), or (s, '', '')
partition(s, delimiter) ==
    LET i == find(s, delimiter, 1) IN
    IF i = 0
    THEN [before |-> s, found |-> FALSE, after |-> <<>>]
    ELSE [before |-> SubSeq(s, 1, i - 1), found |-> TRUE,
          after |-> SubSeq(s, i + 1, Len(s))]

\* str.split(): the maximal runs of non-whitespace characters, in order
RECURSIVE split_ws(_, _, _)
split_ws(s, word, words) ==
    IF s = <<>>
    THEN IF word = <<>> THEN words ELSE Append(words, word)
    ELSE IF Head(s) \in Whitespace
         THEN split_ws(Tail(s), <<>>,
                       IF word = <<>> THEN words ELSE Append(words, word))
         ELSE split_ws(Tail(s), Append(word, Head(s)), words)

split(s) == split_ws(s, <<>>, <<>>)

\* str.join over a list of str
RECURSIVE join(_, _)
join(sep, strings) ==
    IF strings = <<>> THEN <<>>
    ELSE IF Len(strings) = 1 THEN strings[1]
    ELSE strings[1] \o sep \o join(sep, Tail(strings))

(***************************************************************************)
(* Tokenizer                                                               *)
(***************************************************************************)
\* the while loop of parse_split; ok = FALSE is the ValueError it raises
RECURSIVE parse_split_loop(_, _)
parse_split_loop(after, strings) ==
    IF Len(after) = 0 THEN [ok |-> TRUE, toks |-> strings]
    ELSE LET p1 == partition(after, QUOTE)
             strings1 == strings \o split(p1.before)
         IN  IF p1.found
             THEN LET p2 == partition(p1.after, QUOTE) IN
                  IF ~p2.found
                  THEN [ok |-> FALSE, toks |-> <<>>]
                  ELSE parse_split_loop(p2.after, Append(strings1, p2.before))
             ELSE parse_split_loop(p1.after, strings1)

parse_split(string) == parse_split_loop(string, <<>>)

quotify(string) ==
    IF string = <<>> \/ find(string, SPACE, 1) # 0
    THEN <<QUOTE>> \o string \o <<QUOTE>>
    ELSE string

split_encode(strings) ==
    join(<<SPACE>>, [i \in 1..Len(strings) |-> quotify(strings[i])])

(***************************************************************************)
(* Values.  Every python value is a record of one shape, so that values of *)
(* different python types can be compared: n holds an int or a bool,       *)
(* s a str, l the elements of a list.                                      *)
(***************************************************************************)
IntV(i) == [kind |-> "int", n |-> i, s |-> <<>>, l |-> <<>>]
StrV(str) == [kind |-> "str", n |-> 0, s |-> str, l |-> <<>>]
BoolV(b) == [kind |-> "bool", n |-> IF b THEN 1 ELSE 0, s |-> <<>>, l |-> <<>>]
ListV(elems) == [kind |-> "list", n |-> 0, s |-> <<>>, l |-> elems]
NoneV == [kind |-> "None", n |-> 0, s |-> <<>>, l |-> <<>>]
\* the sentinels of pycicle.tools.utils
MISSING == [kind |-> "MISSING", n |-> 0, s |-> <<>>, l |-> <<>>]
DEFAULT == [kind |-> "DEFAULT", n |-> 0, s |-> <<>>, l |-> <<>>]
TRUE_STR == <<"t", "r", "u", "e">>
FALSE_STR == <<"f", "a", "l", "s", "e">>

\* the assignment "name = value" and the statements after it, which use
\* the name: value is evaluated once
Bind(value, rest(_)) == rest(value)

\* result of a call that returns a value or raises
Ok(v) == [ok |-> TRUE, err |-> "", val |-> v]
Raise(e) == [ok |-> FALSE, err |-> e, val |-> NoneV]

\* python truthiness, bool(x)
truthy(v) ==
    CASE v.kind \in {"int", "bool"} -> v.n # 0
      [] v.kind = "str" -> v.s # <<>>
      [] v.kind = "list" -> v.l # <<>>
      [] OTHER -> FALSE

(***************************************************************************)
(* int(str) and str(int)                                                   *)
(***************************************************************************)
DigitVal == [c \in {"0", "1", "2", "3", "4", "5", "6", "7", "8", "9"} |->
    CASE c = "0" -> 0 [] c = "1" -> 1 [] c = "2" -> 2 [] c = "3" -> 3
      [] c = "4" -> 4 [] c = "5" -> 5 [] c = "6" -> 6 [] c = "7" -> 7
      [] c = "8" -> 8 [] c = "9" -> 9]

DigitChar == <<"0", "1", "2", "3", "4", "5", "6", "7", "8", "9">>

\* str.strip()
RECURSIVE lstrip(_)
lstrip(s) ==
    IF s # <<>> /\ Head(s) \in Whitespace THEN lstrip(Tail(s)) ELSE s

RECURSIVE rstrip(_)
rstrip(s) ==
    IF s # <<>> /\ s[Len(s)] \in Whitespace
    THEN rstrip(SubSeq(s, 1, Len(s) - 1)) ELSE s

strip(s) == rstrip(lstrip(s))

\* str.lower() on the characters used here
lower(s) ==
    [i \in 1..Len(s) |->
        CASE s[i] = "T" -> "t" [] s[i] = "F" -> "f" [] OTHER -> s[i]]

RECURSIVE digits_value(_, _)
digits_value(s, acc) ==
    IF s = <<>> THEN acc
    ELSE digits_value(Tail(s), 10 * acc + DigitVal[Head(s)])

\* int(s) for a str s: surrounding whitespace and one sign are accepted,
\* anything else than decimal digits is a ValueError
int_of_str(s) ==
    LET t == strip(s)
        signed == t # <<>> /\ Head(t) \in {"-", "+"}
        digits == IF signed THEN Tail(t) ELSE t
    IN  IF digits = <<>> \/ \E i \in 1..Len(digits) : digits[i] \notin DOMAIN DigitVal
        THEN Raise("ValueError")
        ELSE LET n == digits_value(digits, 0) IN
             Ok(IntV(IF signed /\ Head(t) = "-" THEN 0 - n ELSE n))

RECURSIVE nat_str(_)
nat_str(n) ==
    IF n < 10 THEN <<DigitChar[n + 1]>>
    ELSE Append(nat_str(n \div 10), DigitChar[(n % 10) + 1])

\* str(n) for an int n
str_of_int(n) == IF n < 0 THEN <<"-">> \o nat_str(0 - n) ELSE nat_str(n)

\* parse_bool, the decoder of bool
parse_bool(arg) ==
    IF arg.kind \in {"bool", "int"} THEN Ok(BoolV(arg.n # 0))
    ELSE LET t == lower(strip(arg.s)) IN
         IF t \in {TRUE_STR, <<"y", "e", "s">>, <<"t">>, <<"y">>, <<"1">>}
         THEN Ok(BoolV(TRUE))
         ELSE IF t \in {FALSE_STR, <<"n", "o">>, <<"f">>, <<"n">>, <<"0">>}
         THEN Ok(BoolV(FALSE))
         ELSE Raise("ValueError")

\* encode_bool, the encoder of bool
encode_bool(val) == IF truthy(val) THEN TRUE_STR ELSE FALSE_STR

\* str(value), the default encoder, for the scalar types
py_str(v) ==
    CASE v.kind = "int" -> str_of_int(v.n)
      [] v.kind = "str" -> v.s
      [] v.kind = "bool" -> IF v.n # 0 THEN <<"T", "r", "u", "e">>
                            ELSE <<"F", "a", "l", "s", "e">>
      [] v.kind = "None" -> <<"N", "o", "n", "e">>

\* self.type(value) for the types int, str and bool, and for list, a type
\* that is none of Argument.types()
type_call(type, v) ==
    CASE type = "int" ->
            (CASE v.kind = "int" -> Ok(v)
               [] v.kind = "bool" -> Ok(IntV(v.n))
               [] v.kind = "str" -> int_of_str(v.s)
               [] OTHER -> Raise("TypeError"))
      [] type = "str" -> Ok(StrV(py_str(v)))
      [] type = "list" ->
            (CASE v.kind = "list" -> Ok(v)
               [] v.kind = "str" -> Ok(ListV([i \in 1..Len(v.s) |-> StrV(<<v.s[i]>>)]))
               [] OTHER -> Raise("TypeError"))
      [] OTHER -> Ok(BoolV(truthy(v)))

(***************************************************************************)
(* Argument: a descriptor is a record                                      *)
(*   [name, type, many, default, valid, flags, positional]                 *)
(* with name a str, type one of "int", "str", "bool", valid the name of a  *)
(* validator and flags a sequence of str.  A dict is a function whose      *)
(* domain is the set of its keys.                                          *)
(***************************************************************************)
EmptyDict == [k \in {} |-> NoneV]

Put(d, k, v) == [x \in (DOMAIN d) \cup {k} |-> IF x = k THEN v ELSE d[x]]

Pop(d, k) == [x \in (DOMAIN d) \ {k} |-> d[x]]

required(arg) == arg.default = MISSING

switch(arg) == arg.type = "bool" /\ arg.default = BoolV(FALSE)

\* the validators used by the schemas below; a validator may raise TypeError
valid_call(valid, v) ==
    CASE valid = "lt10" -> IF v.kind \in {"int", "bool"} THEN Ok(BoolV(v.n < 10))
                           ELSE Raise("TypeError")
      [] valid = "ge0" -> IF v.kind \in {"int", "bool"} THEN Ok(BoolV(v.n >= 0))
                          ELSE Raise("TypeError")
      [] valid = "len3" -> IF v.kind = "str" THEN Ok(BoolV(Len(v.s) >= 3))
                           ELSE IF v.kind = "list" THEN Ok(BoolV(Len(v.l) >= 3))
                           ELSE Raise("TypeError")

\* self._encode and self._decode, set in __post_init__ from the type codecs
_encode(arg, v) == IF arg.type = "bool" THEN encode_bool(v) ELSE py_str(v)

_decode(arg, v) == IF arg.type = "bool" THEN parse_bool(v) ELSE type_call(arg.type, v)

\* [f(x) for x in xs] where f may raise: the first exception wins
RECURSIVE map_results(_, _)
map_results(results, acc) ==
    IF results = <<>> THEN Ok(ListV(acc))
    ELSE IF ~Head(results).ok THEN Head(results)
    ELSE map_results(Tail(results), Append(acc, Head(results).val))

StrList(strings) == ListV([i \in 1..Len(strings) |-> StrV(strings[i])])

encode(arg, value) ==
    IF value = NoneV \/ value = MISSING THEN <<>>
    ELSE IF arg.many
    THEN split_encode([i \in 1..Len(value.l) |-> _encode(arg, value.l[i])])
    ELSE _encode(arg, value)

decode(arg, string_s) ==
    IF arg.many
    THEN Bind(IF string_s.kind = "str" THEN StrList(split(string_s.s)).l ELSE string_s.l,
              LAMBDA strings :
                 IF Len(strings) = 0 THEN Ok(arg.default)
                 ELSE map_results([i \in 1..Len(strings) |-> _decode(arg, strings[i])],
                                  <<>>))
    ELSE IF arg.type # "str" /\ string_s = StrV(<<>>) THEN Ok(arg.default)
    ELSE _decode(arg, string_s)

\* a faulty variant of parse_list: no test of self.switch, a flag without
\* tokens gives True for every descriptor
parse_list_any_switch(arg, value) ==
    IF value = DEFAULT
    THEN IF arg.default = MISSING THEN Raise("ValidationError: missing flag or value")
         ELSE Ok(arg.default)
    ELSE IF Len(value.l) = 0
    THEN Ok(BoolV(TRUE))
    ELSE decode(arg, IF arg.many THEN value ELSE value.l[1])

\* a faulty variant of parse_list: no test of self.many, only the first
\* token is decoded
parse_list_first(arg, value) ==
    IF value = DEFAULT
    THEN IF arg.default = MISSING THEN Raise("ValidationError: missing flag or value")
         ELSE Ok(arg.default)
    ELSE IF Len(value.l) = 0
    THEN IF switch(arg) THEN Ok(BoolV(TRUE))
         ELSE Raise("ValidationError: missing value")
    ELSE decode(arg, value.l[1])

\* value is DEFAULT when the flag was not there, else the list of its tokens
parse_list(arg, value) ==
    IF value = DEFAULT
    THEN IF arg.default = MISSING THEN Raise("ValidationError: missing flag or value")
         ELSE Ok(arg.default)
    ELSE IF Len(value.l) = 0
    THEN IF switch(arg) THEN Ok(BoolV(TRUE))
         ELSE Raise("ValidationError: missing value")
    ELSE decode(arg, IF arg.many THEN value ELSE value.l[1])

cast(arg, value) == IF value.kind = arg.type THEN Ok(value) ELSE type_call(arg.type, value)

\* the elements python iterates over in "for v in value"
iterate(value) ==
    CASE value.kind = "list" -> Ok(value)
      [] value.kind = "str" -> Ok(ListV([i \in 1..Len(value.s) |-> StrV(<<value.s[i]>>)]))
      [] OTHER -> Raise("TypeError")

_validate(arg, value) ==
    Bind(IF arg.many
         THEN Bind(iterate(value), LAMBDA elems :
                 IF ~elems.ok THEN elems
                 ELSE map_results([i \in 1..Len(elems.val.l) |->
                                      cast(arg, elems.val.l[i])], <<>>))
         ELSE cast(arg, value),
         LAMBDA casted :
            IF ~casted.ok THEN casted
            ELSE IF arg.valid = "none" THEN casted
            ELSE Bind(valid_call(arg.valid, casted.val), LAMBDA verdict :
                    IF ~verdict.ok THEN verdict
                    ELSE IF ~truthy(verdict.val) THEN Raise("ValueError")
                    ELSE casted))

\* "value is self.default" is modelled by equality: a value that equals the
\* default without being the same object is validated again to itself
validate(arg, value) ==
    IF value = MISSING THEN Raise("ValueError")
    ELSE IF value = arg.default THEN Ok(value)
    ELSE _validate(arg, value)

\* a faulty variant of _validate_default: the default is taken as it is
_validate_default_unchecked(arg, value) == Ok(value)

_validate_default(arg, value) ==
    IF value = NoneV \/ value = MISSING THEN Ok(value)
    ELSE Bind(_validate(arg, value), LAMBDA r : IF r.ok THEN r ELSE Raise("ConfigError"))

\* obj is the dict obj.__arg_values__; the result carries the dict because
\* reading a name that is not stored stores its default
__get__(arg, obj) ==
    IF arg.name \in DOMAIN obj
    THEN [ok |-> TRUE, err |-> "", val |-> obj[arg.name], obj |-> obj]
    ELSE IF arg.default # MISSING
    THEN [ok |-> TRUE, err |-> "", val |-> arg.default,
          obj |-> Put(obj, arg.name, arg.default)]
    ELSE [ok |-> FALSE, err |-> "AttributeError", val |-> NoneV, obj |-> obj]

\* a faulty variant of __set__: the value is stored as it is given
__set___unvalidated(arg, obj, value) ==
    [ok |-> TRUE, err |-> "", obj |-> Put(obj, arg.name, value)]

__set__(arg, obj, value) ==
    Bind(validate(arg, value), LAMBDA r :
       IF r.ok THEN [ok |-> TRUE, err |-> "", obj |-> Put(obj, arg.name, r.val)]
       ELSE [ok |-> FALSE, err |-> "ValidationError", obj |-> obj])

\* a faulty variant of __delete__: the name is removed and the default is
\* not put back
__delete___pop_only(arg, obj) == Pop(obj, arg.name)

__delete__(arg, obj) ==
    IF arg.default # MISSING THEN Put(Pop(obj, arg.name), arg.name, arg.default)
    ELSE Pop(obj, arg.name)

\* min(flags, key=len) and max(flags, key=len): the first of the extremes
_cmd_flag(arg, short) ==
    LET best(i) == \A j \in 1..Len(arg.flags) :
                      IF short THEN Len(arg.flags[j]) >= Len(arg.flags[i])
                      ELSE Len(arg.flags[j]) <= Len(arg.flags[i])
        first == CHOOSE i \in 1..Len(arg.flags) :
                    best(i) /\ \A j \in 1..(i - 1) : ~best(j)
    IN  arg.flags[first]

\* the part of the command line of one argument, for its value
cmd(arg, value, short) ==
    IF switch(arg)
    THEN IF truthy(value) THEN _cmd_flag(arg, short) ELSE <<>>
    ELSE Bind(encode(arg, value), LAMBDA cmd_value :
            IF cmd_value = <<>> THEN <<>>
            ELSE IF short /\ arg.positional THEN cmd_value
            ELSE _cmd_flag(arg, short) \o <<SPACE>> \o cmd_value)

(***************************************************************************)
(* Declaration of a schema: Argument.validate_config, called for every     *)
(* descriptor in declaration order by KeywordArguments.__init_subclass__   *)
(***************************************************************************)
\* Argument(type, flags=None, many=False, default=MISSING, valid=None) bound
\* to its attribute name; flags = <<>> stands for None
Argument(name, type, many, default, valid, flags) ==
    [name |-> name, type |-> type, many |-> many, default |-> default,
     valid |-> valid, flags |-> flags, positional |-> FALSE]

reserved == {<<"h", "e", "l", "p">>, <<"g", "u", "i">>}

\* Argument.types(): the basic types the descriptors here are declared with
types == {"str", "int", "bool"}

startswith(s, prefix) ==
    Len(s) >= Len(prefix) /\ SubSeq(s, 1, Len(prefix)) = prefix

InSeq(x, xs) == \E i \in 1..Len(xs) : xs[i] = x

\* count(seq, key) with key = lambda v: v.many
count_many(existing) == Cardinality({i \in 1..Len(existing) : existing[i].many})

\* valid_format inside _validate_flags, on the stripped flag
valid_format(flag) ==
    LET f == strip(flag) IN
    IF startswith(f, <<"-", "-">>) THEN Len(f) >= 3
    ELSE IF startswith(f, <<"-">>) THEN Len(f) = 2
    ELSE FALSE

\* a faulty variant of remove_existing: every flag is kept
remove_existing_none(flags, existing) == flags

\* remove_existing inside _validate_flags: drops the flags some earlier
\* descriptor has
remove_existing(flags, existing) ==
    SelectSeq(flags, LAMBDA f : ~\E i \in 1..Len(existing) : InSeq(f, existing[i].flags))

_validate_flags(arg, existing) ==
    IF arg.flags # <<>> /\ \E i \in 1..Len(arg.flags) : ~valid_format(arg.flags[i])
    THEN [ok |-> FALSE, flags |-> <<>>]
    ELSE LET flags == IF arg.flags # <<>>
                      THEN [i \in 1..Len(arg.flags) |-> strip(arg.flags[i])]
                      ELSE << <<"-", "-">> \o arg.name, <<"-", arg.name[1]>> >>
             left == remove_existing(flags, existing)
         IN  IF Len(left) = 0 THEN [ok |-> FALSE, flags |-> <<>>]
             ELSE [ok |-> TRUE, flags |-> left]

\* the finalized descriptor, or ok = FALSE and the exception it raises
validate_config(arg, existing) ==
    LET positional == /\ count_many(existing) <= 1
                      /\ \A i \in 1..Len(existing) :
                            existing[i].positional /\ ~switch(existing[i])
    IN  IF arg.type \notin types
        THEN [ok |-> FALSE, err |-> "TypeError", arg |-> arg]
        ELSE IF arg.name \in reserved \/ startswith(arg.name, <<"_">>)
        THEN [ok |-> FALSE, err |-> "ConfigError", arg |-> arg]
        ELSE Bind(_validate_default(arg, arg.default), LAMBDA default :
                IF ~default.ok THEN [ok |-> FALSE, err |-> "ConfigError", arg |-> arg]
                ELSE Bind(_validate_flags(arg, existing), LAMBDA flags :
                        IF ~flags.ok THEN [ok |-> FALSE, err |-> "ConfigError", arg |-> arg]
                        ELSE [ok |-> TRUE, err |-> "",
                              arg |-> [arg EXCEPT !.default = default.val,
                                                  !.positional = positional,
                                                  !.flags = flags.flags]]))

\* KeywordArguments.__init_subclass__: cls._arguments, in declaration order
RECURSIVE __init_subclass__(_, _)
__init_subclass__(declared, valid_args) ==
    IF declared = <<>> THEN [ok |-> TRUE, err |-> "", args |-> valid_args]
    ELSE Bind(validate_config(Head(declared), valid_args), LAMBDA r :
            IF ~r.ok THEN [ok |-> FALSE, err |-> r.err, args |-> valid_args]
            ELSE __init_subclass__(Tail(declared), Append(valid_args, r.arg)))

\* KeywordArguments._defaults
_defaults(arg_defs) ==
    SelectSeq([i \in 1..Len(arg_defs) |->
                  [name |-> arg_defs[i].name, value |-> arg_defs[i].default]],
              LAMBDA kv : kv.value # MISSING)

ArgNamed(arg_defs, name) ==
    arg_defs[CHOOSE i \in 1..Len(arg_defs) : arg_defs[i].name = name]

\* KeywordArguments._update: setattr for every pair in order; an error leaves
\* the pairs before it applied
RECURSIVE _update(_, _, _)
_update(arg_defs, obj, kwargs) ==
    IF kwargs = <<>> THEN [ok |-> TRUE, err |-> "", obj |-> obj]
    ELSE Bind(__set__(ArgNamed(arg_defs, Head(kwargs).name), obj, Head(kwargs).value),
              LAMBDA r : IF ~r.ok THEN r ELSE _update(arg_defs, r.obj, Tail(kwargs)))

\* KeywordArguments.__init__ without keyword arguments
KeywordArguments(arg_defs) == _update(arg_defs, EmptyDict, _defaults(arg_defs)).obj

(***************************************************************************)
(* CmdParser._parse_list                                                   *)
(***************************************************************************)
\* a faulty variant of flag_lookup: only the first flag of every descriptor
\* is registered
flag_lookup_first(arg_defs, token) ==
    IF \E i \in 1..Len(arg_defs) : arg_defs[i].flags # <<>> /\ arg_defs[i].flags[1] = token
    THEN CHOOSE i \in 1..Len(arg_defs) :
            arg_defs[i].flags # <<>> /\ arg_defs[i].flags[1] = token
    ELSE 0

\* flag_lookup: position of the descriptor that owns the flag, 0 if the
\* token is no flag
flag_lookup(arg_defs, token) ==
    IF \E i \in 1..Len(arg_defs) : InSeq(token, arg_defs[i].flags)
    THEN CHOOSE i \in 1..Len(arg_defs) :
            /\ InSeq(token, arg_defs[i].flags)
            /\ \A j \in (i + 1)..Len(arg_defs) : ~InSeq(token, arg_defs[j].flags)
    ELSE 0

\* the loop of get_args_kwargs; current = <<>> stands for current_name None
RECURSIVE get_args_kwargs_loop(_, _, _, _, _)
get_args_kwargs_loop(arg_defs, cmd_list, current, args, kwargs) ==
    IF cmd_list = <<>> THEN [args |-> args, kwargs |-> kwargs]
    ELSE LET flag_or_value == Head(cmd_list)
             owner == flag_lookup(arg_defs, flag_or_value)
         IN  IF owner # 0
             THEN get_args_kwargs_loop(arg_defs, Tail(cmd_list), <<arg_defs[owner].name>>,
                                       args, Put(kwargs, arg_defs[owner].name, <<>>))
             ELSE IF current = <<>>
             THEN get_args_kwargs_loop(arg_defs, Tail(cmd_list), current,
                                       Append(args, flag_or_value), kwargs)
             ELSE get_args_kwargs_loop(arg_defs, Tail(cmd_list), current, args,
                                       Put(kwargs, current[1],
                                           Append(kwargs[current[1]], flag_or_value)))

get_args_kwargs(arg_defs, cmd_list) ==
    get_args_kwargs_loop(arg_defs, cmd_list, <<>>, <<>>, EmptyDict)

\* pos_arg_defs: the descriptors before the first one that has a key in kwargs
RECURSIVE positional_candidates(_, _)
positional_candidates(arg_defs, kwargs) ==
    IF arg_defs = <<>> \/ Head(arg_defs).name \in DOMAIN kwargs THEN <<>>
    ELSE <<Head(arg_defs)>> \o positional_candidates(Tail(arg_defs), kwargs)

\* the two while loops of get_positional_kwargs; ok = FALSE is the IndexError
\* of pos_arg_defs[0] or pos_arg_defs[-1] on an empty list
RECURSIVE from_left(_, _, _)
from_left(pos_arg_defs, pos_args, pos_kwargs) ==
    IF Len(pos_args) = 0
    THEN [ok |-> TRUE, defs |-> pos_arg_defs, args |-> pos_args, kwargs |-> pos_kwargs]
    ELSE IF pos_arg_defs = <<>>
    THEN [ok |-> FALSE, defs |-> pos_arg_defs, args |-> pos_args, kwargs |-> pos_kwargs]
    ELSE IF ~Head(pos_arg_defs).many
    THEN from_left(Tail(pos_arg_defs), Tail(pos_args),
                   Put(pos_kwargs, Head(pos_arg_defs).name, <<Head(pos_args)>>))
    ELSE [ok |-> TRUE, defs |-> pos_arg_defs, args |-> pos_args, kwargs |-> pos_kwargs]

\* a faulty variant of from_right: pos_args.pop(0) in place of pos_args.pop(-1)
RECURSIVE from_right_pop_first(_, _, _)
from_right_pop_first(pos_arg_defs, pos_args, pos_kwargs) ==
    IF Len(pos_args) = 0
    THEN [ok |-> TRUE, defs |-> pos_arg_defs, args |-> pos_args, kwargs |-> pos_kwargs]
    ELSE IF pos_arg_defs = <<>>
    THEN [ok |-> FALSE, defs |-> pos_arg_defs, args |-> pos_args, kwargs |-> pos_kwargs]
    ELSE IF ~pos_arg_defs[Len(pos_arg_defs)].many
    THEN from_right_pop_first(SubSeq(pos_arg_defs, 1, Len(pos_arg_defs) - 1),
                              Tail(pos_args),
                              Put(pos_kwargs, pos_arg_defs[Len(pos_arg_defs)].name,
                                  <<Head(pos_args)>>))
    ELSE [ok |-> TRUE, defs |-> pos_arg_defs, args |-> pos_args, kwargs |-> pos_kwargs]

RECURSIVE from_right(_, _, _)
from_right(pos_arg_defs, pos_args, pos_kwargs) ==
    IF Len(pos_args) = 0
    THEN [ok |-> TRUE, defs |-> pos_arg_defs, args |-> pos_args, kwargs |-> pos_kwargs]
    ELSE IF pos_arg_defs = <<>>
    THEN [ok |-> FALSE, defs |-> pos_arg_defs, args |-> pos_args, kwargs |-> pos_kwargs]
    ELSE IF ~pos_arg_defs[Len(pos_arg_defs)].many
    THEN from_right(SubSeq(pos_arg_defs, 1, Len(pos_arg_defs) - 1),
                    SubSeq(pos_args, 1, Len(pos_args) - 1),
                    Put(pos_kwargs, pos_arg_defs[Len(pos_arg_defs)].name,
                        <<pos_args[Len(pos_args)]>>))
    ELSE [ok |-> TRUE, defs |-> pos_arg_defs, args |-> pos_args, kwargs |-> pos_kwargs]

get_positional_kwargs(arg_defs, kwargs, pos_args) ==
    Bind(from_left(positional_candidates(arg_defs, kwargs), pos_args, EmptyDict),
         LAMBDA left :
            Bind(from_right(left.defs, left.args, left.kwargs), LAMBDA right :
               IF ~left.ok \/ ~right.ok
               THEN [ok |-> FALSE, kwargs |-> EmptyDict]
               ELSE IF Len(right.args) > 0 /\ Len(right.defs) = 1
               THEN [ok |-> TRUE,
                     kwargs |-> Put(right.kwargs, right.defs[1].name, right.args)]
               ELSE [ok |-> TRUE, kwargs |-> right.kwargs]))

\* kwargs.update(get_positional_kwargs(args)): the raw tokens of every name
raw_kwargs(arg_defs, cmd_list) ==
    Bind(get_args_kwargs(arg_defs, cmd_list), LAMBDA split_up :
       Bind(get_positional_kwargs(arg_defs, split_up.kwargs, split_up.args), LAMBDA pos :
          [ok |-> pos.ok,
           kwargs |-> [n \in (DOMAIN split_up.kwargs) \cup (DOMAIN pos.kwargs) |->
                          IF n \in DOMAIN pos.kwargs THEN pos.kwargs[n]
                          ELSE split_up.kwargs[n]]]))

\* a.parse_list(kwargs.get(n, DEFAULT)) for one descriptor
resolve(arg, kwargs) ==
    parse_list(arg, IF arg.name \in DOMAIN kwargs THEN StrList(kwargs[arg.name])
                    ELSE DEFAULT)

\* a faulty variant of _parse_list: only the names that were given tokens
\* are updated, the other names keep what the store holds
_parse_list_given_only(arg_defs, obj, cmd_list) ==
    Bind(raw_kwargs(arg_defs, cmd_list), LAMBDA raw :
       IF ~raw.ok
       THEN [ok |-> FALSE, err |-> "ValueError: too many positional arguments", obj |-> obj]
       ELSE Bind(SelectSeq(arg_defs, LAMBDA a : a.name \in DOMAIN raw.kwargs),
                 LAMBDA given :
                    Bind([i \in 1..Len(given) |-> resolve(given[i], raw.kwargs)],
                         LAMBDA values :
                            IF \E i \in 1..Len(given) : ~values[i].ok
                            THEN [ok |-> FALSE, err |-> "ValueError", obj |-> obj]
                            ELSE _update(given, obj,
                                         [i \in 1..Len(given) |->
                                             [name |-> given[i].name,
                                              value |-> values[i].val]]))))

\* obj is the value store before the call; ok = FALSE with the store the
\* raised error leaves behind
_parse_list(arg_defs, obj, cmd_list) ==
    Bind(raw_kwargs(arg_defs, cmd_list), LAMBDA raw :
       IF ~raw.ok
       THEN [ok |-> FALSE, err |-> "ValueError: too many positional arguments", obj |-> obj]
       ELSE Bind([i \in 1..Len(arg_defs) |-> resolve(arg_defs[i], raw.kwargs)],
                 LAMBDA values :
                    IF \E i \in 1..Len(arg_defs) : ~values[i].ok
                    THEN [ok |-> FALSE,
                          err |-> values[CHOOSE i \in 1..Len(arg_defs) :
                                            /\ ~values[i].ok
                                            /\ \A j \in 1..(i - 1) : values[j].ok].err,
                          obj |-> obj]
                    ELSE _update(arg_defs, obj,
                                 [i \in 1..Len(arg_defs) |->
                                     [name |-> arg_defs[i].name,
                                      value |-> values[i].val]])))

(***************************************************************************)
(* CmdParser                                                               *)
(***************************************************************************)
\* get_entry_file(path): base name and absolute path of the entry script
get_entry_file(path) == IF path THEN <<"/", "p", "y">> ELSE <<"p", "y">>

\* a faulty variant of _remove_entry_file: the first of several tokens is
\* removed without being compared with the entry file
_remove_entry_file_any(cmd_line_list) ==
    IF Len(cmd_line_list) > 1 THEN Tail(cmd_line_list) ELSE cmd_line_list

_remove_entry_file(cmd_line_list) ==
    IF Len(cmd_line_list) > 0
       /\ cmd_line_list[1] \in {get_entry_file(FALSE), get_entry_file(TRUE)}
    THEN Tail(cmd_line_list)
    ELSE cmd_line_list

\* a faulty variant of normalize: a line with unmatched quotes is split at
\* whitespace instead of being refused
normalize_unquoted(cmd_line) ==
    Bind(parse_split(cmd_line), LAMBDA r :
       [ok |-> TRUE, toks |-> _remove_entry_file(IF r.ok THEN r.toks ELSE split(cmd_line))])

\* normalize: quote_split is the tokenizer's split (parse_split)
normalize(cmd_line) ==
    Bind(parse_split(cmd_line), LAMBDA r :
       IF r.ok THEN [ok |-> TRUE, toks |-> _remove_entry_file(r.toks)] ELSE r)

HELP == <<"-", "-", "h", "e", "l", "p">>
GUI == <<"-", "-", "g", "u", "i">>

\* run(do_raise=False): the target is called with the value store as its
\* keyword arguments; every parser here has a target
run(self, st) ==
    [st EXCEPT !.called = Append(st.called, [parser |-> self, kwargs |-> st.kw[self]])]

\* __call__(cmd_line, run) on parser self, from the stores and the calls made so
\* far in st = [kw, called]; the result says how the call ended, which
\* branches it took (path) and which parser parsed locally (local)
RECURSIVE __call__(_, _, _, _)
\* a faulty variant of __call__: the sub-parser is called with run=run
__call___run_passed(self, cmd_line, do_run, st) ==
    Bind(normalize(cmd_line), LAMBDA norm :
       LET cmd_list == norm.toks
           done(path) == [raised |-> FALSE, err |-> "", path |-> path, local |-> "None",
                          kw |-> st.kw, called |-> st.called]
       IN  IF ~norm.ok
           THEN [raised |-> TRUE, err |-> "ValueError: unmatched quotes", path |-> <<>>,
                 local |-> "None", kw |-> st.kw, called |-> st.called]
           ELSE IF cmd_list # <<>> /\ cmd_list[1] = HELP THEN done(<<"help">>)
           ELSE IF cmd_list # <<>> /\ cmd_list[1] = GUI THEN done(<<"gui">>)
           ELSE IF cmd_list # <<>> /\ cmd_list[1] \in DOMAIN sub_parsers[self]
           THEN Bind(__call__(sub_parsers[self][cmd_list[1]],
                              split_encode(Tail(cmd_list)), do_run, st),
                     LAMBDA r : [r EXCEPT !.path = <<"sub">> \o r.path])
           ELSE Bind(_parse_list(arguments[self], st.kw[self], cmd_list), LAMBDA r :
                   LET kw == [st.kw EXCEPT ![self] = r.obj] IN
                   IF ~r.ok
                   THEN [raised |-> TRUE, err |-> r.err, path |-> <<"local">>,
                         local |-> self, kw |-> kw, called |-> st.called]
                   ELSE Bind(IF do_run THEN run(self, [kw |-> kw, called |-> st.called])
                             ELSE [kw |-> kw, called |-> st.called],
                             LAMBDA ran :
                                [raised |-> FALSE, err |-> "", path |-> <<"local">>,
                                 local |-> self, kw |-> ran.kw, called |-> ran.called])))

__call__(self, cmd_line, do_run, st) ==
    Bind(normalize(cmd_line), LAMBDA norm :
       LET cmd_list == norm.toks
           done(path) == [raised |-> FALSE, err |-> "", path |-> path, local |-> "None",
                          kw |-> st.kw, called |-> st.called]
       IN  IF ~norm.ok
           THEN [raised |-> TRUE, err |-> "ValueError: unmatched quotes", path |-> <<>>,
                 local |-> "None", kw |-> st.kw, called |-> st.called]
           ELSE IF cmd_list # <<>> /\ cmd_list[1] = HELP THEN done(<<"help">>)
           ELSE IF cmd_list # <<>> /\ cmd_list[1] = GUI THEN done(<<"gui">>)
           ELSE IF cmd_list # <<>> /\ cmd_list[1] \in DOMAIN sub_parsers[self]
           THEN Bind(__call__(sub_parsers[self][cmd_list[1]],
                              split_encode(Tail(cmd_list)), TRUE, st),
                     LAMBDA r : [r EXCEPT !.path = <<"sub">> \o r.path])
           ELSE Bind(_parse_list(arguments[self], st.kw[self], cmd_list), LAMBDA r :
                   LET kw == [st.kw EXCEPT ![self] = r.obj] IN
                   IF ~r.ok
                   THEN [raised |-> TRUE, err |-> r.err, path |-> <<"local">>,
                         local |-> self, kw |-> kw, called |-> st.called]
                   ELSE Bind(IF do_run THEN run(self, [kw |-> kw, called |-> st.called])
                             ELSE [kw |-> kw, called |-> st.called],
                             LAMBDA ran :
                                [raised |-> FALSE, err |-> "", path |-> <<"local">>,
                                 local |-> self, kw |-> ran.kw, called |-> ran.called])))

\* sub_path: the sub-command names from the root down to self, joined by ' '
RECURSIVE sub_path(_)
sub_path(self) ==
    IF parent[self] = "None" THEN <<>>
    ELSE LET sub_key == CHOOSE k \in DOMAIN sub_parsers[parent[self]] :
                            sub_parsers[parent[self]][k] = self
             above == sub_path(parent[self])
         IN  IF above # <<>> THEN above \o <<SPACE>> \o sub_key ELSE sub_key

\* [arg.cmd(self.keyword_arguments, short) for arg in ...]: obj is the store
\* as the reads leave it, ok = FALSE the AttributeError of an unset name
RECURSIVE cmds(_, _, _, _)
cmds(arg_defs, obj, short, acc) ==
    IF arg_defs = <<>> THEN [ok |-> TRUE, cmds |-> acc, obj |-> obj]
    ELSE Bind(__get__(Head(arg_defs), obj), LAMBDA got :
            IF ~got.ok THEN [ok |-> FALSE, cmds |-> acc, obj |-> got.obj]
            ELSE cmds(Tail(arg_defs), got.obj, short,
                      Append(acc, cmd(Head(arg_defs), got.val, short))))

\* command(short): some = FALSE stands for the None it returns
command(self, short, kw) ==
    Bind(cmds(arguments[self], kw[self], short, <<>>), LAMBDA parts :
       IF ~parts.ok THEN [some |-> FALSE, str |-> <<>>, obj |-> parts.obj]
       ELSE Bind(join(<<SPACE>>, SelectSeq(parts.cmds, LAMBDA c : c # <<>>)), LAMBDA line :
               Bind(sub_path(self), LAMBDA path :
                  [some |-> TRUE,
                   str |-> IF path # <<>> THEN path \o <<SPACE>> \o line ELSE line,
                   obj |-> parts.obj])))

(***************************************************************************)
(* Tokenizer specification: a string or a token list is chosen, and split  *)
(* and join are applied to it in alternation; hist records every value.    *)
(***************************************************************************)
MaxLen == 4
MaxTokLen == 2
MaxToks == 2
MaxOps == 4

TokChars == {"a", SPACE, QUOTE, TAB}

SeqsUpTo(S, n) == UNION {[1..k -> S] : k \in 0..n}

StrEntry(s) == [kind |-> "str", str |-> s, toks |-> <<>>]
ToksEntry(t) == [kind |-> "toks", str |-> <<>>, toks |-> t]
ErrEntry == [kind |-> "err", str |-> <<>>, toks |-> <<>>]

\* no parser is declared while the tokenizer is exercised on its own
parser_vars == <<program, arguments, keyword_arguments, sub_parsers, parent,
                 called, rendered, request, outcome>>

NoParsers ==
    /\ program = "None"
    /\ arguments = <<>>
    /\ keyword_arguments = <<>>
    /\ sub_parsers = <<>>
    /\ parent = <<>>
    /\ called = <<>>
    /\ rendered = [some |-> FALSE, str |-> <<>>, short |-> FALSE]
    /\ request = [op |-> "None"]
    /\ outcome = [op |-> "None"]

TokInit ==
    /\ NoParsers
    /\ \/ \E s \in SeqsUpTo(TokChars, MaxLen) : hist = <<StrEntry(s)>>
       \/ \E t \in SeqsUpTo(SeqsUpTo(TokChars, MaxTokLen), MaxToks) :
             hist = <<ToksEntry(t)>>

Split ==
    /\ Len(hist) < MaxOps
    /\ hist[Len(hist)].kind = "str"
    /\ LET r == parse_split(hist[Len(hist)].str) IN
       hist' = Append(hist, IF r.ok THEN ToksEntry(r.toks) ELSE ErrEntry)
    /\ UNCHANGED parser_vars

Join ==
    /\ Len(hist) < MaxOps
    /\ hist[Len(hist)].kind = "toks"
    /\ hist' = Append(hist, StrEntry(split_encode(hist[Len(hist)].toks)))
    /\ UNCHANGED parser_vars

TokNext == Split \/ Join

vars == <<hist, program, arguments, keyword_arguments, sub_parsers, parent,
          called, rendered, request, outcome>>

SpecTok == TokInit /\ [][TokNext]_vars

(***************************************************************************)
(* The declared parser classes.  Each program is a root parser class and   *)
(* the sub-parsers its constructor attaches, taken from the unit tests and *)
(* the examples.                                                           *)
(***************************************************************************)
\* class Parser of test_positionals: a, b (many), c
Positionals ==
    << Argument(<<"a">>, "int", FALSE, MISSING, "none", <<>>),
       Argument(<<"b">>, "int", TRUE, MISSING, "none", <<>>),
       Argument(<<"c">>, "int", FALSE, MISSING, "none", <<>>) >>

\* class Parser of test_positionals with two many arguments, with the
\* defaults of examples/many_args.py
TwoMany ==
    << Argument(<<"b">>, "int", TRUE, ListV(<<IntV(1), IntV(1)>>), "none", <<>>),
       Argument(<<"c">>, "int", TRUE, ListV(<<IntV(1), IntV(1)>>), "none", <<>>) >>

\* class Parser of test_missing_value: two switches and a nullable bool
MissingValue ==
    << Argument(<<"x">>, "bool", FALSE, BoolV(FALSE), "none", <<>>),
       Argument(<<"y">>, "bool", FALSE, BoolV(FALSE), "none", <<>>),
       Argument(<<"z">>, "bool", FALSE, NoneV, "none", <<>>) >>

\* class Parser of test_valid
Valid ==
    << Argument(<<"u", "n", "i", "t", "s">>, "int", FALSE, MISSING, "ge0", <<>>),
       Argument(<<"n", "a", "m", "e">>, "str", FALSE, MISSING, "len3", <<>>) >>

\* class Sayer of examples/sayit.py
Sayer ==
    << Argument(<<"n", "a", "m", "e">>, "str", FALSE, StrV(<<"B", "o", "b">>), "none", <<>>),
       Argument(<<"t", "e", "x", "t", "s">>, "str", TRUE,
                ListV(<<StrV(<<"n", "o">>)>>), "none", <<>>) >>

\* classes ShipCommand, Move and Sink of test_subparsers
ShipCommand ==
    << Argument(<<"n", "a", "m", "e">>, "str", FALSE, MISSING, "none", <<>>) >>

Move ==
    << Argument(<<"d", "x">>, "int", FALSE, MISSING, "none", <<>>),
       Argument(<<"d", "y">>, "int", FALSE, MISSING, "none", <<>>) >>

Sink ==
    << Argument(<<"s", "u", "n", "k">>, "bool", FALSE, BoolV(TRUE), "none", <<>>) >>

\* class Parser of test_fixed_number_kwarg: arg = Argument(str, many=3); the
\* number is a true value wherever the code tests self.many
FixedNumber == 3

FixedNumberParser ==
    << Argument(<<"a", "r", "g">>, "str", FixedNumber # 0, MISSING, "none", <<>>) >>

MOVE == <<"m", "o", "v", "e">>
SINK == <<"s", "i", "n", "k">>

Programs == {"Positionals", "TwoMany", "MissingValue", "Valid", "Sayer", "ShipCommand",
             "FixedNumber"}

\* the parser instances a program constructs, with their declared classes
Classes(prog) ==
    CASE prog = "Positionals" -> [p \in {"root"} |-> Positionals]
      [] prog = "TwoMany" -> [p \in {"root"} |-> TwoMany]
      [] prog = "MissingValue" -> [p \in {"root"} |-> MissingValue]
      [] prog = "Valid" -> [p \in {"root"} |-> Valid]
      [] prog = "Sayer" -> [p \in {"root"} |-> Sayer]
      [] prog = "FixedNumber" -> [p \in {"root"} |-> FixedNumberParser]
      [] prog = "ShipCommand" ->
            [p \in {"root", "move", "sink"} |->
                CASE p = "root" -> ShipCommand [] p = "move" -> Move [] p = "sink" -> Sink]

\* the **sub_parsers the constructor of each instance is given, in order
SubParserArgs(prog, self) ==
    IF prog = "ShipCommand" /\ self = "root"
    THEN << [name |-> MOVE, parser |-> "move"], [name |-> SINK, parser |-> "sink"] >>
    ELSE <<>>

\* _link_sub_parsers: parents is the parent of every instance so far
RECURSIVE _link_sub_parsers(_, _, _)
\* a faulty variant of _link_sub_parsers: the parent of a sub-parser is set
\* without looking at the one it has
_link_sub_parsers_unchecked(self, subs, parents) ==
    IF subs = <<>> THEN [ok |-> TRUE, parent |-> parents]
    ELSE _link_sub_parsers(self, Tail(subs), [parents EXCEPT ![Head(subs).parser] = self])

_link_sub_parsers(self, subs, parents) ==
    IF subs = <<>> THEN [ok |-> TRUE, parent |-> parents]
    ELSE IF parents[Head(subs).parser] # "None" THEN [ok |-> FALSE, parent |-> parents]
    ELSE _link_sub_parsers(self, Tail(subs), [parents EXCEPT ![Head(subs).parser] = self])

SubParserDict(subs) ==
    [k \in {subs[i].name : i \in 1..Len(subs)} |->
        subs[CHOOSE i \in 1..Len(subs) : subs[i].name = k].parser]

Parsers == DOMAIN arguments

\* the parsers a program calls with a command line: those not attached to a
\* parent, the sub-parsers being reached through them
Entry == {p \in Parsers : parent[p] = "None"}

(***************************************************************************)
(* Inputs: the command lines typed and the values passed to update         *)
(***************************************************************************)
MaxTokens == 3
\* longest rendered command line, in tokens, that is parsed again
MaxRendered == 6

\* the words command lines are made of, per program
Vocabulary(prog) ==
    CASE prog = "Positionals" -> {<<"1">>, <<"-", "3">>, <<"-", "-", "b">>, <<"-", "c">>}
      [] prog = "TwoMany" -> {<<"1">>, <<"2">>, <<"-", "c">>}
      [] prog = "MissingValue" -> {<<"-", "x">>, <<"-", "z">>, <<"n", "o">>, <<"1">>}
      [] prog = "Valid" -> {<<"-", "u">>, <<"-", "n">>, <<"1">>, <<"-", "1">>,
                            <<"a", "n", "n">>}
      [] prog = "Sayer" -> {<<"a", SPACE, "b">>, <<"-", "t">>, <<>>}
      [] prog = "ShipCommand" -> {MOVE, <<"2">>, <<"-", "3">>}
      [] prog = "FixedNumber" -> {<<"-", "a">>, <<"x">>}

\* lines of the tests that the words above do not give
ExtraLines(prog) ==
    {HELP, GUI, <<QUOTE, "1">>, get_entry_file(FALSE) \o <<SPACE, "1">>}
        \cup (IF prog = "ShipCommand"
              THEN {SINK, MOVE \o <<SPACE>> \o HELP, MOVE \o <<SPACE, QUOTE, "2">>,
                    HELP \o <<SPACE>> \o MOVE \o <<SPACE, "2">>,
                    GUI \o <<SPACE>> \o HELP,
                    MOVE \o <<SPACE, "p", "y", SPACE, "2", SPACE, "-", "3">>,
                    MOVE \o <<SPACE, QUOTE, "2", TAB, "-", "3", QUOTE>>}
              ELSE {})
        \cup (IF prog = "Positionals"
              THEN {split_encode(<< <<"1">>, <<"-", "3">>, <<"-", "3">>, <<"1">> >>),
                    split_encode(<< <<"-", "3">>, <<"-", "b">>, <<"-", "3">>,
                                    <<"-", "c">>, <<"1">> >>)}
              ELSE {})

Lines(prog) ==
    {split_encode(t) : t \in SeqsUpTo(Vocabulary(prog), MaxTokens)} \cup ExtraLines(prog)

\* the lines of every program, as a record over the program names
LinesOf ==
    [Positionals |-> Lines("Positionals"), TwoMany |-> Lines("TwoMany"),
     MissingValue |-> Lines("MissingValue"), Valid |-> Lines("Valid"),
     Sayer |-> Lines("Sayer"), ShipCommand |-> Lines("ShipCommand"),
     FixedNumber |-> Lines("FixedNumber")]

\* values passed to update for a descriptor: native and str encoded
UpdateValues(arg) ==
    IF arg.many
    THEN {ListV(<<IntV(1)>>), NoneV}
    ELSE CASE arg.type = "int" -> {IntV(1), StrV(<<"-", "3">>), StrV(<<"x">>)}
           [] arg.type = "str" -> {StrV(<<"a", SPACE, "b">>), IntV(1)}
           [] arg.type = "bool" -> {BoolV(TRUE), StrV(FALSE_STR), NoneV}

(***************************************************************************)
(* Parser specification.  A caller requests an operation with its          *)
(* arguments (request), the operation runs and leaves its result in the    *)
(* stores, in called, rendered and outcome.                                *)
(***************************************************************************)
\* op: the operation; p: the parser it is called on; cmd_line, flag: the
\* arguments of __call__ (flag is run) and command (flag is short); name,
\* value: the arguments of update and delete
Req(op, self, cmd_line, flag, name, value) ==
    [op |-> op, p |-> self, cmd_line |-> cmd_line, flag |-> flag,
     name |-> name, value |-> value]

Idle == Req("None", "None", <<>>, FALSE, <<>>, NoneV)

\* op: the last operation; p: the parser it was called on; raised, err: the
\* exception; path: the branches __call__ took; local: the parser that
\* parsed locally; parsed: the store of p is as an accepted local parse of
\* p left it
Outcome(op, self, raised, err, path, local, parsed) ==
    [op |-> op, p |-> self, raised |-> raised, err |-> err,
     path |-> path, local |-> local, parsed |-> parsed]

NotRendered == [some |-> FALSE, str |-> <<>>, short |-> FALSE]

\* every class is declared, every instance constructed: CmdParser.__init__
InitFor(programs) ==
    /\ hist = <<>>
    /\ program \in programs
    /\ \A p \in DOMAIN Classes(program) : __init_subclass__(Classes(program)[p], <<>>).ok
    /\ arguments = [p \in DOMAIN Classes(program) |->
                       __init_subclass__(Classes(program)[p], <<>>).args]
    /\ keyword_arguments = [p \in DOMAIN Classes(program) |-> KeywordArguments(arguments[p])]
    /\ sub_parsers = [p \in DOMAIN Classes(program) |->
                         SubParserDict(SubParserArgs(program, p))]
    /\ parent = _link_sub_parsers("root", SubParserArgs(program, "root"),
                                  [p \in DOMAIN Classes(program) |-> "None"]).parent
    /\ called = <<>>
    /\ rendered = NotRendered
    /\ request = Idle
    /\ outcome = Outcome("__init__", "root", FALSE, "", <<>>, "None", FALSE)

\* the caller asks for parser(cmd_line, run=flag), reached also as
\* parser.parse(cmd_line, run=flag), for update, for delete or for command
Request ==
    /\ request = Idle
    /\ \/ \E self \in Entry, cmd_line \in LinesOf[program], do_run \in BOOLEAN :
             request' = Req("__call__", self, cmd_line, do_run, <<>>, NoneV)
       \/ \E self \in Parsers, short \in BOOLEAN :
             request' = Req("command", self, <<>>, short, <<>>, NoneV)
       \/ \E self \in Entry :
             \E i \in 1..Len(arguments[self]) :
                \/ \E value \in UpdateValues(arguments[self][i]) :
                      request' = Req("update", self, <<>>, FALSE,
                                     arguments[self][i].name, value)
                \/ request' = Req("delete", self, <<>>, FALSE,
                                  arguments[self][i].name, NoneV)
    /\ UNCHANGED <<hist, program, arguments, keyword_arguments, sub_parsers, parent,
                   called, rendered, outcome>>

\* the caller asks the parser to parse the str its command() returned
Reparse ==
    /\ request = Idle
    /\ rendered.some
    /\ Len(parse_split(rendered.str).toks) <= MaxRendered
    /\ \E do_run \in BOOLEAN :
          request' = Req("__call__", outcome.p, rendered.str, do_run, <<>>, NoneV)
    /\ UNCHANGED <<hist, program, arguments, keyword_arguments, sub_parsers, parent,
                   called, rendered, outcome>>

\* CmdParser.__call__
Call ==
    /\ request.op = "__call__"
    /\ \E r \in {__call__(request.p, request.cmd_line, request.flag,
                          [kw |-> keyword_arguments, called |-> <<>>])} :
          /\ keyword_arguments' = r.kw
          /\ called' = r.called
          /\ outcome' = Outcome("__call__", request.p, r.raised, r.err, r.path, r.local,
                                ~r.raised /\ r.local = request.p)
    /\ rendered' = NotRendered
    /\ request' = Idle
    /\ UNCHANGED <<hist, program, arguments, sub_parsers, parent>>

\* CmdParser.command
Command ==
    /\ request.op = "command"
    /\ \E r \in {command(request.p, request.flag, keyword_arguments)} :
          /\ keyword_arguments' = [keyword_arguments EXCEPT ![request.p] = r.obj]
          /\ rendered' = [some |-> r.some, str |-> r.str, short |-> request.flag]
    /\ called' = <<>>
    /\ outcome' = Outcome("command", request.p, FALSE, "", <<>>, "None",
                          outcome.p = request.p /\ outcome.parsed)
    /\ request' = Idle
    /\ UNCHANGED <<hist, program, arguments, sub_parsers, parent>>

\* CmdParser.update(name=value)
Update ==
    /\ request.op = "update"
    /\ \E r \in {_update(arguments[request.p], keyword_arguments[request.p],
                         <<[name |-> request.name, value |-> request.value]>>)} :
          /\ keyword_arguments' = [keyword_arguments EXCEPT ![request.p] = r.obj]
          /\ outcome' = Outcome("update", request.p, ~r.ok, r.err, <<>>, "None", FALSE)
    /\ called' = <<>>
    /\ rendered' = NotRendered
    /\ request' = Idle
    /\ UNCHANGED <<hist, program, arguments, sub_parsers, parent>>

\* del parser.keyword_arguments.<name>
Delete ==
    /\ request.op = "delete"
    /\ keyword_arguments' =
          [keyword_arguments EXCEPT
              ![request.p] = __delete__(ArgNamed(arguments[request.p], request.name),
                                        keyword_arguments[request.p])]
    /\ outcome' = Outcome("delete", request.p, FALSE, "", <<>>, "None", FALSE)
    /\ called' = <<>>
    /\ rendered' = NotRendered
    /\ request' = Idle
    /\ UNCHANGED <<hist, program, arguments, sub_parsers, parent>>

Next == Request \/ Reparse \/ Call \/ Command \/ Update \/ Delete

Init == InitFor(Programs)

Spec == Init /\ [][Next]_vars

InitP1 == InitFor({"Positionals"})
SpecP1 == InitP1 /\ [][Next]_vars
InitP2 == InitFor({"TwoMany"})
SpecP2 == InitP2 /\ [][Next]_vars
InitP3 == InitFor({"MissingValue"})
SpecP3 == InitP3 /\ [][Next]_vars
InitP4 == InitFor({"Valid"})
SpecP4 == InitP4 /\ [][Next]_vars
InitP5 == InitFor({"Sayer"})
SpecP5 == InitP5 /\ [][Next]_vars
InitP6 == InitFor({"ShipCommand"})
SpecP6 == InitP6 /\ [][Next]_vars
InitP7 == InitFor({"FixedNumber"})
SpecP7 == InitP7 /\ [][Next]_vars
\* the two programs of test_positionals and test_missing_value together
InitP13 == InitFor({"Positionals", "MissingValue"})
SpecP13 == InitP13 /\ [][Next]_vars

(***************************************************************************)
(* Declaration specification.  A class body is written one descriptor at a *)
(* time (request holds it), the class statement runs __init_subclass__ on  *)
(* it, the parser is constructed and called once.                          *)
(***************************************************************************)
\* most descriptors in one class body
MaxArgs == 3

\* descriptors in the manner of test_validation: defaults that pass and
\* defaults that fail the cast or the validator, for single and many arity
DefaultDecls ==
    { Argument(<<"a">>, "int", FALSE, MISSING, "none", <<>>),
      Argument(<<"b">>, "int", FALSE, NoneV, "ge0", <<>>),
      Argument(<<"c">>, "int", FALSE, StrV(<<"x">>), "none", <<>>),
      Argument(<<"d">>, "int", FALSE, IntV(-1), "ge0", <<>>),
      Argument(<<"e">>, "int", FALSE, StrV(<<"1">>), "ge0", <<>>),
      Argument(<<"f">>, "int", TRUE, IntV(1), "none", <<>>),
      Argument(<<"g">>, "int", TRUE, ListV(<<StrV(<<"1">>)>>), "none", <<>>),
      Argument(<<"i">>, "str", FALSE, IntV(1), "len3", <<>>),
      Argument(<<"j">>, "list", FALSE, IntV(1), "none", <<>>),
      Argument(<<"k">>, "bool", FALSE, StrV(<<"x">>), "none", <<>>),
      Argument(<<"l">>, "str", FALSE, StrV(<<"x">>), "ge0", <<>>),
      Argument(<<"h", "e", "l", "p">>, "int", FALSE, StrV(<<"x">>), "none", <<>>) }

\* descriptors in the manner of test_flags_config and test_positionals:
\* flags given twice, names with the same first letter, flags in a wrong
\* format, many-arity descriptors and a switch
SchemaDecls ==
    { Argument(<<"o", "n", "e">>, "int", FALSE, MISSING, "none",
               << <<"-", "x">>, <<"-", "-", "x", "x", "x">> >>),
      Argument(<<"t", "w", "o">>, "int", FALSE, MISSING, "none",
               << <<"-", "x">>, <<"-", "-", "y", "y", "y">> >>),
      Argument(<<"t", "h", "r", "e", "e">>, "int", FALSE, MISSING, "none",
               << <<"-", "x">> >>),
      Argument(<<"y">>, "int", FALSE, IntV(1), "none", << <<SPACE, "-", "x">> >>),
      Argument(<<"b", "a", "d">>, "int", FALSE, MISSING, "none", << <<"x">> >>),
      Argument(<<"a">>, "int", TRUE, MISSING, "none", <<>>),
      Argument(<<"a", "b">>, "int", TRUE, MISSING, "none", <<>>),
      Argument(<<"s">>, "bool", FALSE, BoolV(FALSE), "none", <<>>) }

\* the descriptors a class body is written from, per program
Declarable(prog) ==
    CASE prog = "Defaults" -> DefaultDecls
      [] prog = "Schemas" -> SchemaDecls

\* the command lines the constructed parser is called with, per program
DeclLines(prog) ==
    CASE prog = "Defaults" -> {<<>>}
      [] prog = "Schemas" -> {<<>>, <<"1">>}

\* the class body written so far
ClassBody(op, body) == [op |-> op, body |-> body]

\* nothing is declared yet
DeclInitFor(programs) ==
    /\ hist = <<>>
    /\ program \in programs
    /\ arguments = <<>>
    /\ keyword_arguments = <<>>
    /\ sub_parsers = <<>>
    /\ parent = <<>>
    /\ called = <<>>
    /\ rendered = NotRendered
    /\ request = ClassBody("class", <<>>)
    /\ outcome = Outcome("None", "None", FALSE, "", <<>>, "None", FALSE)

\* a line "name = Argument(...)" of the class body
Attribute ==
    /\ request.op = "class"
    /\ Len(request.body) < MaxArgs
    /\ \E arg \in Declarable(program) :
          /\ \A i \in 1..Len(request.body) : request.body[i].name # arg.name
          /\ request' = ClassBody("class", Append(request.body, arg))
    /\ UNCHANGED <<hist, program, arguments, keyword_arguments, sub_parsers, parent,
                   called, rendered, outcome>>

\* the end of the class statement: CmdParser.__init_subclass__ makes the
\* KeywordArguments class, whose __init_subclass__ finalizes the descriptors
Declare ==
    /\ request.op = "class"
    /\ \E r \in {__init_subclass__(request.body, <<>>)} :
          /\ arguments' = IF r.ok THEN [p \in {"root"} |-> r.args] ELSE <<>>
          /\ outcome' = Outcome("class", "root", ~r.ok, r.err, <<>>, "None", FALSE)
    /\ request' = ClassBody("declared", request.body)
    /\ UNCHANGED <<hist, program, keyword_arguments, sub_parsers, parent, called, rendered>>

\* CmdParser.__init__ of the declared class, without sub-parsers
Construct ==
    /\ request.op = "declared"
    /\ ~outcome.raised
    /\ \E r \in {_update(arguments["root"], EmptyDict, _defaults(arguments["root"]))} :
          /\ keyword_arguments' = [p \in {"root"} |-> r.obj]
          /\ outcome' = Outcome("__init__", "root", ~r.ok, r.err, <<>>, "None", FALSE)
    /\ sub_parsers' = [p \in {"root"} |-> SubParserDict(<<>>)]
    /\ parent' = [p \in {"root"} |-> "None"]
    /\ request' = Idle
    /\ UNCHANGED <<hist, program, arguments, called, rendered>>

\* the caller asks the new parser for parser(cmd_line, run=flag)
DeclRequest ==
    /\ request = Idle
    /\ outcome.op = "__init__"
    /\ ~outcome.raised
    /\ \E cmd_line \in DeclLines(program), do_run \in BOOLEAN :
          request' = Req("__call__", "root", cmd_line, do_run, <<>>, NoneV)
    /\ UNCHANGED <<hist, program, arguments, keyword_arguments, sub_parsers, parent,
                   called, rendered, outcome>>

DeclNext == Attribute \/ Declare \/ Construct \/ DeclRequest \/ Call

InitD1 == DeclInitFor({"Defaults"})
SpecD1 == InitD1 /\ [][DeclNext]_vars
InitD2 == DeclInitFor({"Schemas"})
SpecD2 == InitD2 /\ [][DeclNext]_vars

(***************************************************************************)
(* Construction specification.  Parsers of one class are constructed one   *)
(* after the other, each with sub-parsers chosen among the instances that  *)
(* exist; hist records the constructor calls and how they ended.           *)
(***************************************************************************)
\* most constructor calls
MaxParsers == 4

\* the i-th instance constructed
ParserId(i) == <<"p1", "p2", "p3", "p4", "p5", "p6">>[i]

\* the **sub_parsers a constructor call can be given: keyword names are
\* distinct, the same instance may be passed under two names
SubParserChoices(existing) ==
    {<<>>}
      \cup {<<[name |-> n, parser |-> q]>> : n \in {MOVE, SINK}, q \in existing}
      \cup {<<[name |-> n[1], parser |-> q[1]], [name |-> n[2], parser |-> q[2]]>> :
                n \in {<<MOVE, SINK>>, <<SINK, MOVE>>}, q \in existing \X existing}

TreeInit ==
    /\ hist = <<>>
    /\ program = "Tree"
    /\ arguments = <<>>
    /\ keyword_arguments = <<>>
    /\ sub_parsers = <<>>
    /\ parent = <<>>
    /\ called = <<>>
    /\ rendered = NotRendered
    /\ request = Idle
    /\ outcome = Outcome("None", "None", FALSE, "", <<>>, "None", FALSE)

\* the caller writes ShipCommand(target, **subs)
TreeRequest ==
    /\ request = Idle
    /\ Len(hist) < MaxParsers
    /\ \E subs \in SubParserChoices(DOMAIN parent) :
          request' = [op |-> "__init__", p |-> ParserId(Len(hist) + 1), subs |-> subs]
    /\ UNCHANGED <<hist, program, arguments, keyword_arguments, sub_parsers, parent,
                   called, rendered, outcome>>

\* CmdParser.__init__: when _link_sub_parsers raises, the new instance is
\* lost and the sub-parsers linked before the raise keep it as parent
TreeConstruct ==
    /\ request.op = "__init__"
    /\ \E r \in {_link_sub_parsers(request.p, request.subs, parent)} :
          \E made \in {IF r.ok THEN {request.p} ELSE {}} :
             /\ parent' = [q \in DOMAIN parent \cup made |->
                              IF q \in made THEN "None" ELSE r.parent[q]]
             /\ sub_parsers' = [q \in DOMAIN sub_parsers \cup made |->
                                   IF q \in made THEN SubParserDict(request.subs)
                                   ELSE sub_parsers[q]]
             /\ arguments' = [q \in DOMAIN arguments \cup made |->
                                 __init_subclass__(ShipCommand, <<>>).args]
             /\ keyword_arguments' =
                   [q \in DOMAIN keyword_arguments \cup made |->
                       IF q \in made
                       THEN KeywordArguments(__init_subclass__(ShipCommand, <<>>).args)
                       ELSE keyword_arguments[q]]
             /\ outcome' = Outcome("__init__", request.p, ~r.ok,
                                   IF r.ok THEN "" ELSE "ValueError", <<>>, "None", FALSE)
             /\ hist' = Append(hist, [kind |-> IF r.ok THEN "made" ELSE "raised",
                                      str |-> <<>>, toks |-> <<>>])
    /\ request' = Idle
    /\ UNCHANGED <<program, called, rendered>>

TreeNext == TreeRequest \/ TreeConstruct

SpecTree == TreeInit /\ [][TreeNext]_vars

(***************************************************************************)
(* Codec specification: a list of str is chosen as the value of texts, the *)
(* many-arity str descriptor of Sayer, and Argument.encode and             *)
(* Argument.decode are applied to it in alternation; hist records every    *)
(* value.                                                                  *)
(***************************************************************************)
\* the finalized descriptor Sayer.texts
texts == ArgNamed(__init_subclass__(Sayer, <<>>).args, <<"t", "e", "x", "t", "s">>)

CodecInit ==
    /\ program = "Codec"
    /\ arguments = <<>>
    /\ keyword_arguments = <<>>
    /\ sub_parsers = <<>>
    /\ parent = <<>>
    /\ called = <<>>
    /\ rendered = NotRendered
    /\ request = Idle
    /\ outcome = Outcome("None", "None", FALSE, "", <<>>, "None", FALSE)
    /\ \E t \in SeqsUpTo(SeqsUpTo(TokChars, MaxTokLen), MaxToks) : hist = <<ToksEntry(t)>>

\* texts.encode(value) for the list of str last recorded
Encode ==
    /\ Len(hist) < MaxOps
    /\ hist[Len(hist)].kind = "toks"
    /\ hist' = Append(hist, StrEntry(encode(texts, StrList(hist[Len(hist)].toks))))
    /\ UNCHANGED parser_vars

\* texts.decode(string) for the str last recorded
Decode ==
    /\ Len(hist) < MaxOps
    /\ hist[Len(hist)].kind = "str"
    /\ \E r \in {decode(texts, StrV(hist[Len(hist)].str))} :
          hist' = Append(hist, IF r.ok /\ r.val.kind = "list"
                               THEN ToksEntry([i \in 1..Len(r.val.l) |-> r.val.l[i].s])
                               ELSE ErrEntry)
    /\ UNCHANGED parser_vars

SpecCodec == CodecInit /\ [][Encode \/ Decode]_vars

(***************************************************************************)
(* Tokenizer properties                                                    *)
(***************************************************************************)
\* C8: for every token list, splitting the string produced by joining the
\* list succeeds and returns exactly the original token list, whatever
\* characters the tokens contain (quote character and tab included).
C8_JoinThenSplitIsIdentity ==
    (hist[1].kind = "toks" /\ Len(hist) >= 3)
        => (hist[3].kind = "toks" /\ hist[3].toks = hist[1].toks)

\* C9: for every line s that splits without error,
\* split(join(split(s))) = split(s).
C9_SplitJoinSplit ==
    \A i \in 1..Len(hist) :
        (hist[i].kind = "str" /\ i + 3 <= Len(hist) /\ hist[i + 1].kind = "toks")
            => (hist[i + 3].kind = "toks" /\ hist[i + 3].toks = hist[i + 1].toks)

\* C10: every string produced by join splits without error and is a fixed
\* point of join after split: join(split(s)) = s.
C10_JoinOutputIsFixedPoint ==
    \A i \in 2..Len(hist) :
        (hist[i].kind = "str" /\ hist[i - 1].kind = "toks")
            => /\ i + 1 <= Len(hist) => hist[i + 1].kind = "toks"
               /\ i + 2 <= Len(hist) => hist[i + 2].str = hist[i].str

(***************************************************************************)
(* Parser properties.  The step of __call__ is the one taken from a state  *)
(* where request.op = "__call__"; request holds its arguments before the   *)
(* step, outcome', keyword_arguments' and called' its results.             *)
(***************************************************************************)
\* C1: round trip with long flags: when a parser has accepted a command line
\* L, the str command(short=False) renders from the resulting value store
\* is accepted by the parser and leaves exactly the value store that
\* parsing L left.
C1_RoundTripLongFlags ==
    [][(/\ request.op = "__call__"
        /\ outcome.op = "command" /\ outcome.p = request.p /\ outcome.parsed
        /\ rendered.some /\ ~rendered.short
        /\ request.cmd_line = rendered.str)
       => (/\ ~outcome'.raised
           /\ keyword_arguments'[request.p] = keyword_arguments[request.p])]_vars

\* C2: all-or-nothing update: when a locally handled parse call raises, the
\* value store of the parser is exactly what it was before the call.
C2_AllOrNothingUpdate ==
    [][(/\ request.op = "__call__"
        /\ outcome'.raised
        /\ outcome'.path \in {<<>>, <<"local">>})
       => keyword_arguments' = keyword_arguments]_vars

\* C3: positional allocation from both ends: for a schema of p fixed-arity
\* descriptors, one many-arity descriptor and q fixed-arity descriptors, a
\* command line of n >= p + q + 1 value tokens and no flags is accepted and
\* gives token i to the i-th prefix descriptor, the last q tokens in order
\* to the suffix descriptors and the n - p - q middle tokens in order to the
\* many descriptor.
C3_PositionalsFromBothEnds ==
    [][LET self == request.p
           arg_defs == arguments[self]
           norm == normalize(request.cmd_line)
           toks == norm.toks
           n == Len(toks)
           k == Len(arg_defs)
           many == {i \in 1..k : arg_defs[i].many}
           m == CHOOSE i \in many : TRUE
           q == k - m
           flags == UNION {{arg_defs[i].flags[j] : j \in 1..Len(arg_defs[i].flags)} :
                              i \in 1..k}
           tokens_of(i) == IF i < m THEN StrV(toks[i])
                           ELSE IF i > m THEN StrV(toks[n - (k - i)])
                           ELSE StrList(SubSeq(toks, m, n - q))
           value(i) == decode(arg_defs[i], tokens_of(i))
       IN  (/\ request.op = "__call__"
            /\ norm.ok
            /\ Cardinality(many) = 1
            /\ n >= k
            /\ toks[1] \notin {HELP, GUI} \cup DOMAIN sub_parsers[self]
            /\ \A j \in 1..n : toks[j] \notin flags
            /\ \A i \in 1..k : value(i).ok /\ arg_defs[i].valid = "none")
           => (/\ ~outcome'.raised
               /\ outcome'.path = <<"local">>
               /\ \A i \in 1..k :
                     /\ arg_defs[i].name \in DOMAIN keyword_arguments'[self]
                     /\ keyword_arguments'[self][arg_defs[i].name] = value(i).val)]_vars

\* C3 witness: "1 -3 -3 1" was accepted: a = 1, b = [-3, -3], c = 1
C3_Witness ==
    /\ program = "Positionals"
    /\ outcome.op = "__call__" /\ ~outcome.raised /\ outcome.path = <<"local">>
    /\ DOMAIN keyword_arguments["root"] = {<<"a">>, <<"b">>, <<"c">>}
    /\ keyword_arguments["root"][<<"a">>] = IntV(1)
    /\ keyword_arguments["root"][<<"b">>] = ListV(<<IntV(-3), IntV(-3)>>)
    /\ keyword_arguments["root"][<<"c">>] = IntV(1)

\* C4: leftover positional tokens are always fatal: when the pass from the
\* left, the pass from the right and the single-remaining-descriptor step
\* leave a positional token unassigned, the parse raises the
\* too-many-positional-arguments error.
C4_LeftoverTokensAreFatal ==
    [][LET self == request.p
           arg_defs == arguments[self]
           norm == normalize(request.cmd_line)
           toks == norm.toks
           split_up == get_args_kwargs(arg_defs, toks)
           left == from_left(positional_candidates(arg_defs, split_up.kwargs),
                             split_up.args, EmptyDict)
           right == from_right(left.defs, left.args, left.kwargs)
       IN  (/\ request.op = "__call__"
            /\ norm.ok
            /\ toks # <<>>
            /\ toks[1] \notin {HELP, GUI} \cup DOMAIN sub_parsers[self]
            /\ \/ ~left.ok
               \/ ~right.ok
               \/ Len(right.args) > 0 /\ Len(right.defs) # 1)
           => (/\ outcome'.raised
               /\ outcome'.err = "ValueError: too many positional arguments")]_vars

\* C5: switch semantics: for a bool descriptor x with default False, every
\* accepted command line resolves x to True when it holds a flag of x and
\* to False when it does not, whatever tokens follow the flag.
C5_SwitchSemantics ==
    [][LET self == request.p
           arg_defs == arguments[self]
           toks == normalize(request.cmd_line).toks
           present(arg) == \E j \in 1..Len(toks), f \in 1..Len(arg.flags) :
                              toks[j] = arg.flags[f]
       IN  (/\ request.op = "__call__"
            /\ ~outcome'.raised
            /\ outcome'.path = <<"local">>)
           => \A i \in 1..Len(arg_defs) :
                 (arg_defs[i].type = "bool" /\ arg_defs[i].default = BoolV(FALSE))
                    => keyword_arguments'[self][arg_defs[i].name]
                          = BoolV(present(arg_defs[i]))]_vars

\* C6: resolution of one argument from its raw tokens: flag absent gives the
\* default when there is one and raises the missing-argument error when
\* there is none; flag present with no tokens gives True for a boolean
\* switch and raises the missing-value error otherwise; in every other case
\* the result is decode of the collected tokens, all of them for many arity
\* and the single one for single arity.  The first descriptor that raises
\* decides the error of the parse; an accepted parse stores every result.
C6_ResolutionFromRawTokens ==
    [][LET self == request.p
           arg_defs == arguments[self]
           norm == normalize(request.cmd_line)
           toks == norm.toks
           raw == raw_kwargs(arg_defs, toks)
           k == Len(arg_defs)
           expected(i) ==
               LET arg == arg_defs[i] IN
               IF arg.name \notin DOMAIN raw.kwargs
               THEN IF arg.default = MISSING
                    THEN Raise("ValidationError: missing flag or value")
                    ELSE Ok(arg.default)
               ELSE IF raw.kwargs[arg.name] = <<>>
               THEN IF arg.type = "bool" /\ arg.default = BoolV(FALSE)
                    THEN Ok(BoolV(TRUE))
                    ELSE Raise("ValidationError: missing value")
               ELSE decode(arg, IF arg.many THEN StrList(raw.kwargs[arg.name])
                                ELSE StrV(raw.kwargs[arg.name][1]))
           failing == {i \in 1..k : ~expected(i).ok}
           first == CHOOSE i \in failing : \A j \in failing : i <= j
       IN  (/\ request.op = "__call__"
            /\ norm.ok
            /\ toks = <<>> \/ toks[1] \notin {HELP, GUI} \cup DOMAIN sub_parsers[self]
            /\ raw.ok)
           => IF failing # {}
              THEN /\ outcome'.raised
                   /\ outcome'.err = expected(first).err
                   /\ keyword_arguments' = keyword_arguments
              ELSE ~outcome'.raised
                      => \A i \in 1..k :
                            keyword_arguments'[self][arg_defs[i].name]
                               = expected(i).val]_vars

\* C6 witness: "-x" was accepted by the parser of test_missing_value: the
\* switch x is True, the absent y and z have their defaults False and None
C6_Witness ==
    /\ program = "MissingValue"
    /\ outcome.op = "__call__" /\ ~outcome.raised /\ outcome.path = <<"local">>
    /\ keyword_arguments["root"][<<"x">>] = BoolV(TRUE)
    /\ keyword_arguments["root"][<<"y">>] = BoolV(FALSE)
    /\ keyword_arguments["root"][<<"z">>] = NoneV

\* C7: sub-command dispatch: when the first token of the command line given
\* to a parser is the name of one of its sub-parsers, the value store of the
\* parent is left unchanged, the target of the parent is not invoked, and
\* the target of the child is invoked with the values the child resolved
\* from the remaining tokens.
C7_SubCommandDispatch ==
    [][LET self == request.p
           norm == normalize(request.cmd_line)
           toks == norm.toks
           child == sub_parsers[self][toks[1]]
       IN  (/\ request.op = "__call__"
            /\ norm.ok
            /\ toks # <<>>
            /\ toks[1] \in DOMAIN sub_parsers[self])
           => (/\ keyword_arguments'[self] = keyword_arguments[self]
               /\ \A i \in 1..Len(called') : called'[i].parser # self
               /\ outcome'.path[1] = "sub"
               /\ (~outcome'.raised /\ outcome'.path = <<"sub", "local">>)
                     => called' = <<[parser |-> child,
                                     kwargs |-> keyword_arguments'[child]]>>)]_vars

\* C7 witness: "move 2 -3" was dispatched by the root parser, which holds a
\* name: move was invoked with dx = 2, dy = -3
C7_Witness ==
    /\ program = "ShipCommand"
    /\ outcome.op = "__call__" /\ outcome.p = "root" /\ ~outcome.raised
    /\ outcome.path = <<"sub", "local">>
    /\ Len(called) = 1
    /\ called[1].parser = "move"
    /\ called[1].kwargs = Put(Put(EmptyDict, <<"d", "x">>, IntV(2)),
                              <<"d", "y">>, IntV(-3))
    /\ <<"n", "a", "m", "e">> \in DOMAIN keyword_arguments["root"]

\* C11: a command line with an unmatched quote character is refused before
\* any argument is touched: the call raises the tokenizing error, the value
\* store of the parser and of every sub-parser is unchanged, no sub-parser
\* is dispatched and no target is invoked.
C11_UnmatchedQuoteIsFatal ==
    [][LET line == request.cmd_line
           quotes == Cardinality({i \in 1..Len(line) : line[i] = QUOTE})
       IN  (/\ request.op = "__call__"
            /\ quotes % 2 = 1)
           => (/\ outcome'.raised
               /\ outcome'.err = "ValueError: unmatched quotes"
               /\ outcome'.path = <<>>
               /\ outcome'.local = "None"
               /\ keyword_arguments' = keyword_arguments
               /\ called' = <<>>)]_vars

\* C11 witness: after "move 2 -3" had filled the store of move, a line with
\* an unmatched quote was refused
C11_Witness ==
    /\ program = "ShipCommand"
    /\ outcome.op = "__call__" /\ outcome.raised
    /\ outcome.err = "ValueError: unmatched quotes"
    /\ <<"d", "x">> \in DOMAIN keyword_arguments["move"]

C13_ArityInvariant ==
    \A p \in DOMAIN keyword_arguments :
        (program = "FixedNumber" /\ <<"a", "r", "g">> \in DOMAIN keyword_arguments[p])
            => /\ keyword_arguments[p][<<"a", "r", "g">>].kind = "list"
               /\ Len(keyword_arguments[p][<<"a", "r", "g">>].l) = FixedNumber

\* C14: command-tree invariant: after any sequence of parser constructions
\* every parser instance is a sub-parser of at most one parent and under at
\* most one name; constructing a parent with an instance that is already
\* attached raises ValueError.
C14_AtMostOneParent ==
    [][LET subs == request.subs
           attached(c) == {pk \in UNION {{<<q, k>> : k \in DOMAIN sub_parsers'[q]} :
                                             q \in DOMAIN sub_parsers'} :
                              sub_parsers'[pk[1]][pk[2]] = c}
       IN  request.op = "__init__"
           => /\ (\E i \in 1..Len(subs) : parent[subs[i].parser] # "None")
                    => (/\ outcome'.raised
                        /\ outcome'.err = "ValueError"
                        /\ request.p \notin DOMAIN sub_parsers')
              /\ \A c \in DOMAIN parent' :
                    /\ Cardinality(attached(c)) <= 1
                    /\ \A pk \in attached(c) : parent'[c] = pk[1]]_vars

\* C14 witness: an instance that is the sub-parser of an existing parent was
\* passed to a third constructor call, which raised ValueError
C14_Witness ==
    /\ program = "Tree"
    /\ Len(hist) = 3
    /\ hist[1].kind = "made" /\ hist[2].kind = "made" /\ hist[3].kind = "raised"
    /\ outcome.op = "__init__" /\ outcome.raised /\ outcome.err = "ValueError"
    /\ DOMAIN sub_parsers["p2"] = {MOVE}
    /\ sub_parsers["p2"][MOVE] = "p1"
    /\ parent["p1"] = "p2"

\* C15: round trip in short form: when a parser has accepted a command line
\* L, the str command(short=True) renders from the resulting value store,
\* with bare values for the positional descriptors and the shortest flag
\* for the others, is accepted by the parser and leaves exactly the value
\* store that parsing L left.
C15_RoundTripShortForm ==
    [][(/\ request.op = "__call__"
        /\ outcome.op = "command" /\ outcome.p = request.p /\ outcome.parsed
        /\ rendered.some /\ rendered.short
        /\ request.cmd_line = rendered.str)
       => (/\ ~outcome'.raised
           /\ keyword_arguments'[request.p] = keyword_arguments[request.p])]_vars

\* C16: codec round trip for many-arity str arguments: for every list v of
\* str, elements with spaces included, decode(encode(v)) = v.
C16_CodecRoundTripManyStr ==
    (program = "Codec" /\ Len(hist) >= 3 /\ hist[1].kind = "toks")
        => (/\ hist[2].kind = "str"
            /\ hist[3].kind = "toks"
            /\ hist[3].toks = hist[1].toks)

\* C17: programmatic value interface: for every descriptor and every valid
\* native value v, update(name=encode(v)), the str encoded form, stores the
\* same value as update(name=v); for a bool descriptor the strings "true"
\* and "false" store True and False.
C17_UpdateAcceptsEncodedValues ==
    [][LET self == request.p
           arg == ArgNamed(arguments[self], request.name)
           natives == {BoolV(TRUE), BoolV(FALSE), IntV(1), IntV(-3),
                       ListV(<<IntV(1)>>), StrV(<<"a", SPACE, "b">>)}
       IN  request.op = "update"
           => \A v \in natives :
                 (/\ v.kind = (IF arg.many THEN "list" ELSE arg.type)
                  /\ _validate(arg, v) = Ok(v)
                  /\ request.value = StrV(encode(arg, v)))
                 => (/\ ~outcome'.raised
                     /\ request.name \in DOMAIN keyword_arguments'[self]
                     /\ keyword_arguments'[self][request.name] = v)]_vars

C19_PositionalsOnlyForEligible ==
    [][LET self == request.p
           arg_defs == arguments[self]
           toks == normalize(request.cmd_line).toks
           flagged(arg) == \E j \in 1..Len(toks) : InSeq(toks[j], arg.flags)
       IN  (/\ request.op = "__call__"
            /\ ~outcome'.raised
            /\ outcome'.path = <<"local">>)
           => \A i \in 1..Len(arg_defs) :
                 (~arg_defs[i].positional /\ ~flagged(arg_defs[i]))
                    => /\ arg_defs[i].default # MISSING
                       /\ keyword_arguments'[self][arg_defs[i].name] = arg_defs[i].default]_vars

\* C20: a schema whose positional candidates include two many-arity
\* descriptors is refused with a configuration error when the class is
\* declared; the ambiguity is not left to parse time.
C20_TwoManyRefusedAtDeclaration ==
    [][LET body == request.body
           many == {i \in 1..Len(body) : body[i].many}
       IN  (/\ request.op = "class"
            /\ outcome'.op = "class"
            /\ Cardinality(many) >= 2)
           => (outcome'.raised /\ outcome'.err = "ConfigError")]_vars

\* C21: branch selection of the dispatcher: __call__ takes exactly one
\* branch, chosen by the first token only, in the order --help, --gui, name
\* of a sub-parser, local parse.  With --help as first token the call is
\* terminal: nothing is parsed, no value store changes, no sub-parser is
\* dispatched and no target is invoked, whatever tokens follow.
C21_BranchByFirstToken ==
    [][LET self == request.p
           norm == parse_split(request.cmd_line)
           toks == IF norm.toks # <<>>
                      /\ norm.toks[1] \in {get_entry_file(b) : b \in BOOLEAN}
                   THEN Tail(norm.toks) ELSE norm.toks
           first == IF toks = <<>> THEN <<>> ELSE toks[1]
           path == outcome'.path
       IN  (request.op = "__call__" /\ norm.ok)
           => /\ IF first = HELP THEN path = <<"help">>
                 ELSE IF first = GUI THEN path = <<"gui">>
                 ELSE IF toks # <<>> /\ first \in DOMAIN sub_parsers[self]
                 THEN /\ Len(path) = 2
                      /\ path[1] = "sub"
                      /\ path[2] \in {"help", "gui", "local"}
                      /\ outcome'.local \in {"None", sub_parsers[self][first]}
                 ELSE path = <<"local">> /\ outcome'.local = self
              /\ first = HELP
                    => (/\ ~outcome'.raised
                        /\ outcome'.local = "None"
                        /\ keyword_arguments' = keyword_arguments
                        /\ called' = <<>>)]_vars

\* C21 witness: after "move 2 -3" had filled the store of move, a line with
\* --help as first token ended in the help branch
C21_Witness ==
    /\ program = "ShipCommand"
    /\ outcome.op = "__call__" /\ outcome.p = "root" /\ ~outcome.raised
    /\ outcome.path = <<"help">>
    /\ called = <<>>
    /\ <<"d", "x">> \in DOMAIN keyword_arguments["move"]

\* C22: on dispatch the sub-parser parses exactly the token sequence that
\* followed the sub-command name in the parent's token list: the same
\* tokens in the same order with the same boundaries, also for tokens that
\* were quoted in the original line.
C22_ChildParsesRemainingTokens ==
    [][LET self == request.p
           norm == normalize(request.cmd_line)
           rest == Tail(norm.toks)
           child == normalize(split_encode(rest))
       IN  (/\ request.op = "__call__"
            /\ norm.ok /\ norm.toks # <<>>
            /\ norm.toks[1] \in DOMAIN sub_parsers[self]
            /\ outcome'.path[1] = "sub")
           => child.ok /\ child.toks = rest]_vars

\* C23: flag recognition is by exact match: a token is a flag if and only if
\* it equals a flag registered in the schema; every other token, also one
\* that starts with '-' such as a negative number, is a value: the tokens
\* before the first flag are the positional values, the tokens between a
\* flag and the next flag are the values of that flag's argument, and an
\* accepted parse stores them as that argument's value.
C23_FlagsByExactMatch ==
    [][LET self == request.p
           arg_defs == arguments[self]
           norm == normalize(request.cmd_line)
           toks == norm.toks
           n == Len(toks)
           k == Len(arg_defs)
           flags_of(i) == {arg_defs[i].flags[j] : j \in 1..Len(arg_defs[i].flags)}
           F == {j \in 1..n : \E i \in 1..k : toks[j] \in flags_of(i)}
           owner(j) == CHOOSE i \in 1..k : toks[j] \in flags_of(i)
           next(j) == CHOOSE m \in (j + 1)..(n + 1) :
                         /\ m \in F \cup {n + 1}
                         /\ \A m2 \in (j + 1)..(m - 1) : m2 \notin F
           last == {j \in F : \A j2 \in F : j2 > j => owner(j2) # owner(j)}
           values(j) == SubSeq(toks, j + 1, next(j) - 1)
           split_up == get_args_kwargs(arg_defs, toks)
       IN  (/\ request.op = "__call__"
            /\ norm.ok
            /\ outcome'.path = <<"local">>)
           => (/\ split_up.args = SubSeq(toks, 1, next(0) - 1)
               /\ DOMAIN split_up.kwargs = {arg_defs[owner(j)].name : j \in F}
               /\ \A j \in last : split_up.kwargs[arg_defs[owner(j)].name] = values(j)
               /\ ~outcome'.raised
                     => \A j \in last :
                           keyword_arguments'[self][arg_defs[owner(j)].name]
                              = parse_list(arg_defs[owner(j)], StrList(values(j))).val)]_vars

\* C23 witness: "-3 -b -3 -c 1" was accepted: the tokens -3 are values, -b
\* and -c are flags: a = -3, b = [-3], c = 1
C23_Witness ==
    /\ program = "Positionals"
    /\ outcome.op = "__call__" /\ ~outcome.raised /\ outcome.path = <<"local">>
    /\ DOMAIN keyword_arguments["root"] = {<<"a">>, <<"b">>, <<"c">>}
    /\ keyword_arguments["root"][<<"a">>] = IntV(-3)
    /\ keyword_arguments["root"][<<"b">>] = ListV(<<IntV(-3)>>)
    /\ keyword_arguments["root"][<<"c">>] = IntV(1)

\* C24: validation on every path: a value that fails the type cast or the
\* custom validator of its descriptor is rejected with a ValueError (or a
\* subclass of it) both when it arrives through a parsed command line and
\* when it is assigned through update, and the rejected value is not stored
\* for that argument.
C24_ValidationOnEveryPath ==
    [][LET self == request.p
           arg_defs == arguments[self]
           obj == keyword_arguments[self]
           obj2 == keyword_arguments'[self]
           cast_fails(arg, v) ==
              IF arg.many
              THEN \/ ~iterate(v).ok
                   \/ \E i \in 1..Len(iterate(v).val.l) : ~cast(arg, iterate(v).val.l[i]).ok
              ELSE ~cast(arg, v).ok
           casted(arg, v) ==
              IF arg.many
              THEN ListV([i \in 1..Len(iterate(v).val.l) |->
                             cast(arg, iterate(v).val.l[i]).val])
              ELSE cast(arg, v).val
           valid_fails(arg, v) ==
              /\ arg.valid # "none"
              /\ \/ ~valid_call(arg.valid, v).ok
                 \/ ~truthy(valid_call(arg.valid, v).val)
           fails(arg, v) ==
              /\ v # arg.default
              /\ cast_fails(arg, v) \/ valid_fails(arg, casted(arg, v))
           kept(name) ==
              /\ name \in DOMAIN obj2 <=> name \in DOMAIN obj
              /\ name \in DOMAIN obj => obj2[name] = obj[name]
           rejected == /\ outcome'.raised
                       /\ outcome'.err \in {"ValueError", "ValidationError",
                                            "ValidationError: missing flag or value",
                                            "ValidationError: missing value"}
           norm == normalize(request.cmd_line)
           raw == raw_kwargs(arg_defs, norm.toks)
           given(i) == /\ arg_defs[i].name \in DOMAIN raw.kwargs
                       /\ raw.kwargs[arg_defs[i].name] # <<>>
           tokens(i) == IF arg_defs[i].many THEN StrList(raw.kwargs[arg_defs[i].name])
                        ELSE StrV(raw.kwargs[arg_defs[i].name][1])
           bad(i) == /\ given(i)
                     /\ \/ ~decode(arg_defs[i], tokens(i)).ok
                        \/ fails(arg_defs[i], decode(arg_defs[i], tokens(i)).val)
       IN  /\ (/\ request.op = "update"
               /\ fails(ArgNamed(arg_defs, request.name), request.value))
              => rejected /\ kept(request.name)
           /\ (/\ request.op = "__call__"
               /\ norm.ok
               /\ outcome'.path = <<"local">>
               /\ raw.ok
               /\ \E i \in 1..Len(arg_defs) : bad(i))
              => (/\ rejected
                  /\ \A i \in 1..Len(arg_defs) : bad(i) => kept(arg_defs[i].name))]_vars

\* C24 witness: the line "1 1" of test_valid was refused for name = '1',
\* which is shorter than 3: name is not stored
C24_Witness ==
    /\ program = "Valid"
    /\ outcome.op = "__call__" /\ outcome.raised /\ outcome.err = "ValidationError"
    /\ DOMAIN keyword_arguments["root"] = {<<"u", "n", "i", "t", "s">>}
    /\ keyword_arguments["root"][<<"u", "n", "i", "t", "s">>] = IntV(1)

C26_NoValueTokenIgnored ==
    [][LET self == request.p
           arg_defs == arguments[self]
           norm == normalize(request.cmd_line)
           toks == norm.toks
           n == Len(toks)
           k == Len(arg_defs)
           flags_of(i) == {arg_defs[i].flags[j] : j \in 1..Len(arg_defs[i].flags)}
           V == {j \in 1..n : \A i \in 1..k : toks[j] \notin flags_of(i)}
           dealt(g, i) == {j \in V : g[j] = i}
           tokens(g, i) ==
              [m \in 1..Cardinality(dealt(g, i)) |->
                  toks[CHOOSE j \in dealt(g, i) :
                          Cardinality({j2 \in dealt(g, i) : j2 < j}) = m - 1]]
       IN  (/\ request.op = "__call__"
            /\ norm.ok
            /\ outcome'.path = <<"local">>
            /\ ~outcome'.raised)
           => \E g \in [V -> 1..k] :
                 \A i \in 1..k :
                    dealt(g, i) # {}
                       => /\ arg_defs[i].many \/ Cardinality(dealt(g, i)) = 1
                          /\ parse_list(arg_defs[i], StrList(tokens(g, i))).ok
                          /\ keyword_arguments'[self][arg_defs[i].name]
                                = parse_list(arg_defs[i], StrList(tokens(g, i))).val]_vars

\* C27: parse(cmd, run=False) never invokes a target: neither the target of
\* the parser nor the target of any sub-parser is called, also when the
\* first token of the command line dispatches to a sub-command.
C27_ParseWithoutRunCallsNoTarget ==
    [][(request.op = "__call__" /\ ~request.flag) => called' = <<>>]_vars

\* C28: a successful local parse is history-independent: whatever the value
\* store held before (from earlier parses, updates or deletes), the store
\* after the parse is the one the same command line gives from an empty
\* store; every declared argument is set, and an argument that is absent
\* from the command line holds its default, not its previous value.
C28_ParseIsHistoryIndependent ==
    [][LET self == request.p
           arg_defs == arguments[self]
           norm == normalize(request.cmd_line)
           raw == raw_kwargs(arg_defs, norm.toks)
           fresh == _parse_list(arg_defs, EmptyDict, norm.toks)
       IN  (/\ request.op = "__call__"
            /\ norm.ok
            /\ outcome'.path = <<"local">>
            /\ ~outcome'.raised)
           => (/\ fresh.ok
               /\ keyword_arguments'[self] = fresh.obj
               /\ DOMAIN keyword_arguments'[self]
                     = {arg_defs[i].name : i \in 1..Len(arg_defs)}
               /\ \A i \in 1..Len(arg_defs) :
                     arg_defs[i].name \notin DOMAIN raw.kwargs
                        => keyword_arguments'[self][arg_defs[i].name]
                              = arg_defs[i].default)]_vars

\* C28 witness: the parser of test_missing_value accepted "-z 1": x and y,
\* absent from the line, hold their default, z is True
C28_Witness ==
    /\ program = "MissingValue"
    /\ outcome.op = "__call__" /\ ~outcome.raised /\ outcome.path = <<"local">>
    /\ keyword_arguments["root"][<<"x">>] = BoolV(FALSE)
    /\ keyword_arguments["root"][<<"y">>] = BoolV(FALSE)
    /\ keyword_arguments["root"][<<"z">>] = BoolV(TRUE)

\* C29: value-store invariant: after any sequence of construction, update,
\* parse and delete operations, raising ones included, every value held in
\* a value store is the declared default of its descriptor or a value of
\* the descriptor's type (for many-arity a list of such values) that its
\* validator accepts; the missing sentinel is never stored; and after
\* delete(name) the name holds its default if it has one and is absent
\* otherwise, the other names being untouched.
C29_ValueStoreInvariant ==
    /\ [](\A self \in Parsers :
            \A name \in DOMAIN keyword_arguments[self] :
               LET arg == ArgNamed(arguments[self], name)
                   v == keyword_arguments[self][name]
                   typed == IF arg.many
                            THEN /\ v.kind = "list"
                                 /\ \A i \in 1..Len(v.l) : v.l[i].kind = arg.type
                            ELSE v.kind = arg.type
                   accepted == \/ arg.valid = "none"
                               \/ /\ valid_call(arg.valid, v).ok
                                  /\ truthy(valid_call(arg.valid, v).val)
               IN  /\ \E i \in 1..Len(arguments[self]) : arguments[self][i].name = name
                   /\ v # MISSING
                   /\ v = arg.default \/ (typed /\ accepted))
    /\ [][request.op = "delete"
            => LET self == request.p
                   arg == ArgNamed(arguments[self], request.name)
                   obj == keyword_arguments[self]
                   obj2 == keyword_arguments'[self]
               IN  /\ IF arg.default # MISSING
                      THEN /\ request.name \in DOMAIN obj2
                           /\ obj2[request.name] = arg.default
                      ELSE request.name \notin DOMAIN obj2
                   /\ DOMAIN obj2 \ {request.name} = DOMAIN obj \ {request.name}
                   /\ \A n \in DOMAIN obj \ {request.name} : obj2[n] = obj[n]]_vars

\* C29 witness: a parse of the parser of test_positionals had set a, b and
\* c, then a, which has no default, was deleted
C29_Witness ==
    /\ program = "Positionals"
    /\ outcome.op = "delete"
    /\ DOMAIN keyword_arguments["root"] = {<<"b">>, <<"c">>}

\* C30: a failed attachment leaves no trace: when the construction of a
\* parent raises because a sub-parser passed to it is already attached, no
\* other sub-parser passed in the same call is left attached to the failed
\* parent: every parent attribute is what it was before the call, so each
\* of them can still be attached to another parent.
C30_FailedAttachmentLeavesNoTrace ==
    [][(request.op = "__init__" /\ outcome'.raised)
          => /\ parent' = parent
             /\ \A i \in 1..Len(request.subs) :
                   parent'[request.subs[i].parser] # request.p]_vars

====
